---------------------------- MODULE Spec2Model ----------------------------
(***************************************************************************)
(* A model of the Pivotal Games DAT tools: the extractor undat.py, the     *)
(* builder redat.py, and the unpack_dat / repack_dat pairs of main.py and  *)
(* new.py.                                                                 *)
(*                                                                         *)
(* Representation.                                                         *)
(*  - A character is its code point, a text a sequence of code points; a   *)
(*    byte is 0..255 and a blob or a file a sequence of bytes.             *)
(*  - A Python int is a pair <<hi, lo>> that stands for hi * 65536 + lo,   *)
(*    with lo in 0..65535 (TLC's integers are 32-bit signed, and the       *)
(*    fingerprints use all 32 bits).  It is a 32-bit unsigned value        *)
(*    exactly when hi < 65536.                                             *)
(*  - The file system is POSIX: names are case sensitive and "/" is the    *)
(*    only separator.  The output directory is `dirs` (its directories,    *)
(*    <<>> being the directory itself) and `tree` (its files), both keyed  *)
(*    by the path below the output directory.                              *)
(*  - The name list is one file, `listFile`: undat.py reads and appends to *)
(*    data/FileNames.list (line 157) and redat.py reads                    *)
(*    data/FileNames.List (line 124), which are taken to name that file.   *)
(***************************************************************************)
EXTENDS Integers, Sequences, FiniteSets, TLC

VARIABLES
    variant,          \* which script runs: "undat" (undat.py + redat.py), "main", "new"
    listFile,         \* data/FileNames.list: NoFile, or its text
    datFile,          \* the archive to unpack: NoFile, or its bytes
    dirs,             \* directories that exist at or below the output directory
    tree,             \* files below the output directory: path -> bytes
    xpc,              \* extractor: "idle", "loop", "done", "crashed"
    name_map,         \* extractor: fingerprint -> name (name_map / hash_dict)
    processed_files,  \* undat.py: fingerprints already handled
    loop,             \* undat.py: offset of the next table record
    entries,          \* main.py, new.py: the parsed table
    reads,            \* history: the blob reads done, in order
    writes,           \* history: the files written, in order
    learned,          \* history: the names undat.py recovered from blobs, in order
    bpc,              \* builder: "idle", "done", "crashed"
    b_files,          \* builder: the enumerated relative paths, in order
    b_entries,        \* builder: the entries built, in order
    outDat,           \* the archive the builder writes: NoFile, or its bytes
    h_text,           \* ce_hash: input_string
    h_pc,             \* ce_hash: "idle", "loop", "returned"
    h_i,              \* ce_hash: iterations done
    h_reg,            \* ce_hash: the locals dwHash (hi, lo), j, bCounter
    h_result,         \* ce_hash: the value returned
    s_data,           \* sniffing: the blob handed to the classifiers
    s_pc,             \* sniffing: "idle", "undat", "new", "name", "done"
    s_undat,          \* sniffing: what undat.py's guess_extension returned
    s_new,            \* sniffing: what new.py's guess_extension returned
    s_name,           \* sniffing: what extract_eobj_internal_name returned
    c_list,           \* catalog: the name list handed to the loaders
    c_pc,             \* catalog: "idle", "undat", "redat", "main", "done"
    c_undat,          \* catalog: what undat.py's load_filenames_list returned
    c_redat,          \* catalog: what redat.py's load_filenames_list returned
    c_main            \* catalog: what load_hash_list returned

svars == <<variant, listFile, datFile, dirs, tree, xpc, name_map,
           processed_files, loop, entries, reads, writes, learned, bpc,
           b_files, b_entries, outDat>>
hvars == <<h_text, h_pc, h_i, h_reg, h_result>>
fvars == <<s_data, s_pc, s_undat, s_new, s_name,
           c_list, c_pc, c_undat, c_redat, c_main>>
vars == <<svars, hvars, fvars>>

\* A file that does not exist: no byte and no code point is negative.
NoFile == <<-1>>

----------------------------------------------------------------------------
(* Sequences.                                                              *)

Range(s) == {s[i] : i \in 1..Len(s)}

Take(s, n) == SubSeq(s, 1, IF n < Len(s) THEN n ELSE Len(s))

Drop(s, n) == SubSeq(s, n + 1, Len(s))

RECURSIVE Flatten(_)
Flatten(ss) == IF ss = <<>> THEN <<>> ELSE Head(ss) \o Flatten(Tail(ss))

RECURSIVE SumLen(_)
SumLen(ss) == IF ss = <<>> THEN 0 ELSE Len(Head(ss)) + SumLen(Tail(ss))

\* All sequences over S of length at most n.
SeqsUpTo(S, n) == UNION {[1..k -> S] : k \in 0..n}

\* All orderings of the finite set S, as sequences without repetition.
Orderings(S) ==
    {f \in [1..Cardinality(S) -> S] : \A i, k \in 1..Cardinality(S) : f[i] = f[k] => i = k}

----------------------------------------------------------------------------
(* Python ints as <<hi, lo>>, and struct's "<III".                         *)

Nat2W(n) == <<n \div 65536, n % 65536>>

\* WAdd gone wrong: the running offset never advances.
WAdd_stuck(a, b) == a

WAdd(a, b) == <<a[1] + b[1] + ((a[2] + b[2]) \div 65536), (a[2] + b[2]) % 65536>>

IsU32(w) == w[1] \in 0..65535 /\ w[2] \in 0..65535

\* struct.pack('<I', w), for w in range
PackU32(w) == <<w[2] % 256, w[2] \div 256, w[1] % 256, w[1] \div 256>>

\* struct.unpack('<I', b)
UnpackU32(b) == <<b[3] + 256 * b[4], b[1] + 256 * b[2]>>

----------------------------------------------------------------------------
(* Text: str.lower, str.upper, str.strip, str.split, str.encode, f"{n}",   *)
(* f"{n:08X}", int(s).  Code points stay below 256.  Of the non-ASCII ones  *)
(* the Latin-1 letters that change case one-to-one are given a case, and    *)
(* the sharp s (223) has the upper case "SS" as in Python; the micro sign   *)
(* and the y with diaeresis, whose upper case lies above 255 and is no more *)
(* ASCII than they are, are left as they are.                               *)

Lower(c) == IF c \in 65..90 \/ c \in 192..214 \/ c \in 216..222 THEN c + 32 ELSE c

Upper(c) == IF c \in 97..122 \/ c \in 224..246 \/ c \in 248..254 THEN c - 32 ELSE c

StrLower(s) == [i \in 1..Len(s) |-> Lower(s[i])]

StrUpper(s) ==
    Flatten([i \in 1..Len(s) |-> IF s[i] = 223 THEN <<83, 83>> ELSE <<Upper(s[i])>>])

\* str.isspace, for code points below 256
Whitespace == {9, 10, 11, 12, 13, 28, 29, 30, 31, 32, 133, 160}

RECURSIVE LStrip(_)
LStrip(s) == IF s # <<>> /\ Head(s) \in Whitespace THEN LStrip(Tail(s)) ELSE s

RECURSIVE RStrip(_)
RStrip(s) ==
    IF s # <<>> /\ s[Len(s)] \in Whitespace THEN RStrip(SubSeq(s, 1, Len(s) - 1)) ELSE s

Strip(s) == RStrip(LStrip(s))

\* the least index of s holding a member of S, 0 when there is none
FirstIn(s, S) ==
    IF \E i \in 1..Len(s) : s[i] \in S
    THEN CHOOSE i \in 1..Len(s) : s[i] \in S /\ \A k \in 1..(i - 1) : s[k] \notin S
    ELSE 0

\* the greatest index of s holding a member of S, 0 when there is none
LastIn(s, S) ==
    IF \E i \in 1..Len(s) : s[i] \in S
    THEN CHOOSE i \in 1..Len(s) : s[i] \in S /\ \A k \in (i + 1)..Len(s) : s[k] \notin S
    ELSE 0

\* str.split on one separator character (S is the singleton of it)
RECURSIVE Split(_, _)
Split(s, S) ==
    LET k == FirstIn(s, S)
    IN  IF k = 0 THEN <<s>> ELSE <<SubSeq(s, 1, k - 1)>> \o Split(Drop(s, k), S)

\* str.encode('ascii', errors='ignore')
IsAscii(c) == c < 128

EncodeAsciiIgnore(s) == SelectSeq(s, IsAscii)

Div10(w) == <<w[1] \div 10, ((w[1] % 10) * 65536 + w[2]) \div 10>>

Mod10(w) == ((w[1] % 10) * 65536 + w[2]) % 10

RECURSIVE DecDigits(_)
DecDigits(w) == IF w = <<0, 0>> THEN <<>> ELSE DecDigits(Div10(w)) \o <<48 + Mod10(w)>>

\* f"{w}" for w >= 0
DecStr(w) == IF w = <<0, 0>> THEN <<48>> ELSE DecDigits(w)

HexDigit(d) == IF d < 10 THEN 48 + d ELSE 55 + d

Hex4(n) == <<HexDigit(n \div 4096), HexDigit((n \div 256) % 16),
             HexDigit((n \div 16) % 16), HexDigit(n % 16)>>

\* f"{w:08X}" for a 32-bit w
Hex8(w) == Hex4(w[1]) \o Hex4(w[2])

IsDigit(c) == c \in 48..57

NotUnderscore(c) == c # 95

RECURSIVE DigitsValue(_, _)
DigitsValue(ds, acc) ==
    IF ds = <<>> THEN acc
    ELSE LET t == acc[2] * 10 + (Head(ds) - 48)
         IN  DigitsValue(Tail(ds), <<acc[1] * 10 + (t \div 65536), t % 65536>>)

\* int(s): surrounding whitespace, one optional sign, decimal digits with single
\* underscores between them.  ok = FALSE stands for ValueError.
ParseInt(s) ==
    LET t    == Strip(s)
        sgn  == t # <<>> /\ Head(t) \in {43, 45}
        body == IF sgn THEN Tail(t) ELSE t
        good == /\ body # <<>>
                /\ IsDigit(body[1]) /\ IsDigit(body[Len(body)])
                /\ \A i \in 1..Len(body) : IsDigit(body[i]) \/ body[i] = 95
                /\ \A i \in 1..(Len(body) - 1) : ~(body[i] = 95 /\ body[i + 1] = 95)
        val  == IF good THEN DigitsValue(SelectSeq(body, NotUnderscore), <<0, 0>>)
                ELSE <<0, 0>>
    IN  [ok |-> good, neg |-> good /\ sgn /\ Head(t) = 45 /\ val # <<0, 0>>, val |-> val]

----------------------------------------------------------------------------
(* ce_hash.                                                                *)

Xor(a, b) == a # b

ce_hash_start == [hi |-> 0, lo |-> 1, j |-> 0, bCounter |-> 1]

\* ce_hash_body gone wrong: the tap (dwHash >> 21) taken at bit 22.
ce_hash_body_tap22(r, encoded) ==
    LET D  == (r.hi \div 32768) % 2 = 1
        A  == (r.hi \div 64) % 2 = 1
        B  == (r.lo \div 2) % 2 = 1
        C  == r.lo % 2 = 1
        hi == (r.hi * 2 + (r.lo \div 32768)) % 65536
        lo == (r.lo * 2) % 65536
        current_char == IF r.j < Len(encoded) THEN encoded[r.j + 1] ELSE 0
        X  == (current_char \div r.bCounter) % 2 = 1
        bit == IF Xor(D, Xor(Xor(Xor(A, B), C), X)) THEN 1 ELSE 0
        bc == r.bCounter * 2
    IN  [hi |-> hi, lo |-> lo + bit,
         j |-> IF bc = 0 \/ bc > 128 THEN r.j + 1 ELSE r.j,
         bCounter |-> IF bc = 0 \/ bc > 128 THEN 1 ELSE bc]

\* One pass of the for loop's body.  dwHash is hi * 65536 + lo; bCounter is a
\* power of two, so (current_char & bCounter) != 0 is a test of one bit.
ce_hash_body(r, encoded) ==
    LET D  == (r.hi \div 32768) % 2 = 1
        A  == (r.hi \div 32) % 2 = 1
        B  == (r.lo \div 2) % 2 = 1
        C  == r.lo % 2 = 1
        hi == (r.hi * 2 + (r.lo \div 32768)) % 65536
        lo == (r.lo * 2) % 65536
        current_char == IF r.j < Len(encoded) THEN encoded[r.j + 1] ELSE 0
        X  == (current_char \div r.bCounter) % 2 = 1
        bit == IF Xor(D, Xor(Xor(Xor(A, B), C), X)) THEN 1 ELSE 0
        bc == r.bCounter * 2
    IN  [hi |-> hi, lo |-> lo + bit,
         j |-> IF bc = 0 \/ bc > 128 THEN r.j + 1 ELSE r.j,
         bCounter |-> IF bc = 0 \/ bc > 128 THEN 1 ELSE bc]

\* Eight passes: the bits of one character.
ce_hash_body8(r, encoded) ==
    ce_hash_body(ce_hash_body(ce_hash_body(ce_hash_body(
        ce_hash_body(ce_hash_body(ce_hash_body(ce_hash_body(r, encoded),
            encoded), encoded), encoded), encoded), encoded), encoded), encoded)

\* The for loop, n passes from r on.  n is 8 * len(input_string), and the passes
\* are taken eight at a time to keep TLC's evaluation shallow.
RECURSIVE ce_hash_loop(_, _, _)
ce_hash_loop(r, encoded, n) ==
    IF n = 0 THEN r
    ELSE LET next == ce_hash_body8(r, encoded)
         IN  \* the test is always true: it makes TLC compute `next` before the call
             IF next.bCounter > 0 THEN ce_hash_loop(next, encoded, n - 8) ELSE next

ce_hash(input_string) ==
    LET r == ce_hash_loop(ce_hash_start, EncodeAsciiIgnore(input_string),
                          8 * Len(input_string))
    IN  <<r.hi % 65536, r.lo>>

----------------------------------------------------------------------------
(* The name list: load_filenames_list of undat.py and of redat.py,         *)
(* load_hash_list of main.py and new.py.  A dict is a function.            *)

EmptyMap == [k \in {} |-> <<>>]

Put(m, k, v) == [x \in DOMAIN m \cup {k} |-> IF x = k THEN v ELSE m[x]]

NonBlank(s) == s # <<>>

\* "for line in f: line = line.strip(); if not line: continue".  Text mode reads
\* "\r" and "\r\n" as line ends too; the empty pieces this leaves are skipped as
\* blank lines are.
StrippedLines(text) ==
    LET raw == Split(text, {10, 13})
    IN  SelectSeq([i \in 1..Len(raw) |-> Strip(raw[i])], NonBlank)

\* undat.py: a fingerprint keeps the first name that hashed to it
RECURSIVE KeepFirst(_, _)
KeepFirst(lines, hash_dict) ==
    IF lines = <<>> THEN hash_dict
    ELSE LET line == Head(lines)
             lower_hash == ce_hash(StrLower(line))
             upper_hash == ce_hash(StrUpper(line))
             d1 == IF lower_hash \notin DOMAIN hash_dict
                   THEN Put(hash_dict, lower_hash, line) ELSE hash_dict
             d2 == IF upper_hash \notin DOMAIN d1 THEN Put(d1, upper_hash, line) ELSE d1
         IN  KeepFirst(Tail(lines), d2)

\* the loop of redat.py keeping the first name, as undat.py's does
OverwriteLast_keepfirst(lines, hash_dict) == KeepFirst(lines, hash_dict)

\* redat.py, main.py, new.py: a fingerprint takes the last name that hashed to it
RECURSIVE OverwriteLast(_, _)
OverwriteLast(lines, hash_dict) ==
    IF lines = <<>> THEN hash_dict
    ELSE LET line == Head(lines)
             lower_hash == ce_hash(StrLower(line))
             upper_hash == ce_hash(StrUpper(line))
         IN  OverwriteLast(Tail(lines),
                           Put(Put(hash_dict, lower_hash, line), upper_hash, line))

load_filenames_list_undat(file) ==
    IF file = NoFile THEN EmptyMap ELSE KeepFirst(StrippedLines(file), EmptyMap)

load_filenames_list_redat(file) ==
    IF file = NoFile THEN EmptyMap ELSE OverwriteLast(StrippedLines(file), EmptyMap)

load_hash_list(file) ==
    IF file = NoFile THEN EmptyMap ELSE OverwriteLast(StrippedLines(file), EmptyMap)

----------------------------------------------------------------------------
(* Content sniffing: guess_extension of undat.py and of new.py,            *)
(* extract_eobj_internal_name of undat.py.                                 *)

\* data[:256].decode("ascii") raises exactly when a byte is 128 or more
DecodesAsAscii(data) == \A i \in 1..Len(Take(data, 256)) : data[i] < 128

guess_extension_undat(data) ==
    IF Len(data) < 4 THEN <<98, 105, 110>>                            \* "bin"
    ELSE LET first4 == SubSeq(data, 1, 4)
         IN  IF first4 = <<68, 68, 83, 32>> THEN <<100, 100, 115>>       \* "DDS " dds
             ELSE IF first4 = <<80, 83, 70, 32>> THEN <<112, 115, 102>>  \* "PSF " psf
             ELSE IF first4 = <<83, 67, 72, 32>> THEN <<115, 99, 104>>   \* "SCH " sch
             ELSE IF first4 = <<69, 79, 66, 74>> THEN <<101, 111, 98, 106>> \* "EOBJ" eobj
             ELSE IF SubSeq(first4, 2, 4) = <<80, 78, 71>> THEN <<112, 110, 103>> \* "PNG" png
             ELSE IF first4 = <<2, 0, 0, 0>> THEN <<98, 105, 110>>       \* 02000000 bin
             ELSE IF first4 = <<105, 109, 103, 102>> THEN <<105, 109, 103, 102>> \* imgf
             ELSE IF first4 = <<83, 76, 79, 67>> THEN <<115, 108, 111, 99>> \* "SLOC" sloc
             ELSE IF SubSeq(first4, 1, 2) = <<66, 77>> THEN <<98, 109, 112>> \* "BM" bmp
             ELSE IF DecodesAsAscii(data) THEN <<116, 120, 116>>         \* txt
             ELSE <<98, 105, 110>>                                       \* bin

\* guess_extension of new.py with the PNG test on bytes 0..2 instead of 1..3
guess_extension_new_png0(data) ==
    IF Len(data) < 4 THEN <<98, 105, 110>>
    ELSE LET first4 == SubSeq(data, 1, 4)
         IN  IF first4 = <<68, 68, 83, 32>> THEN <<100, 100, 115>>
             ELSE IF first4 = <<80, 83, 70, 32>> THEN <<112, 115, 102>>
             ELSE IF first4 = <<83, 67, 72, 32>> THEN <<115, 99, 104>>
             ELSE IF first4 = <<69, 79, 66, 74>> THEN <<101, 111, 98, 106>>
             ELSE IF SubSeq(first4, 1, 3) = <<80, 78, 71>> THEN <<112, 110, 103>>
             ELSE IF first4 = <<105, 109, 103, 102>> THEN <<105, 109, 103, 102>>
             ELSE IF first4 = <<83, 76, 79, 67>> THEN <<115, 108, 111, 99>>
             ELSE IF SubSeq(first4, 1, 2) = <<66, 77>> THEN <<98, 109, 112>>
             ELSE IF first4 = <<2, 0, 0, 0>> THEN <<98, 105, 110>>
             ELSE IF DecodesAsAscii(data) THEN <<116, 120, 116>>
             ELSE <<98, 105, 110>>

guess_extension_new(data) ==
    IF Len(data) < 4 THEN <<98, 105, 110>>
    ELSE LET first4 == SubSeq(data, 1, 4)
         IN  IF first4 = <<68, 68, 83, 32>> THEN <<100, 100, 115>>
             ELSE IF first4 = <<80, 83, 70, 32>> THEN <<112, 115, 102>>
             ELSE IF first4 = <<83, 67, 72, 32>> THEN <<115, 99, 104>>
             ELSE IF first4 = <<69, 79, 66, 74>> THEN <<101, 111, 98, 106>>
             ELSE IF SubSeq(first4, 2, 4) = <<80, 78, 71>> THEN <<112, 110, 103>>
             ELSE IF first4 = <<105, 109, 103, 102>> THEN <<105, 109, 103, 102>>
             ELSE IF first4 = <<83, 76, 79, 67>> THEN <<115, 108, 111, 99>>
             ELSE IF SubSeq(first4, 1, 2) = <<66, 77>> THEN <<98, 109, 112>>
             ELSE IF first4 = <<2, 0, 0, 0>> THEN <<98, 105, 110>>
             ELSE IF DecodesAsAscii(data) THEN <<116, 120, 116>>
             ELSE <<98, 105, 110>>

\* the while loop: the bytes from index i on, up to the first that is 0 or
\* outside 32..126
RECURSIVE PrintableRun(_, _)
PrintableRun(data, i) ==
    IF i > Len(data) \/ data[i] = 0 \/ data[i] < 32 \/ data[i] > 126 THEN <<>>
    ELSE <<data[i]>> \o PrintableRun(data, i + 1)

extract_eobj_internal_name(data) ==
    IF Len(data) <= 8 THEN <<>> ELSE Strip(PrintableRun(data, 9))

----------------------------------------------------------------------------
(* Paths and the file system.                                              *)

\* re.sub(r'[<>:"/\\|?*]', "", name)
IsLegalChar(c) == c \notin {60, 62, 58, 34, 47, 92, 124, 63, 42}

Sanitize(name) == SelectSeq(name, IsLegalChar)

\* os.path.dirname and os.path.basename of a relative path without "//"
DirName(path) ==
    LET k == LastIn(path, {47}) IN IF k = 0 THEN <<>> ELSE SubSeq(path, 1, k - 1)

BaseName(path) == Drop(path, LastIn(path, {47}))

\* os.path.splitext(path)[1] is not empty: the base name, its leading dots set
\* aside, holds a dot
RECURSIVE DropLeadingDots(_)
DropLeadingDots(s) == IF s # <<>> /\ Head(s) = 46 THEN DropLeadingDots(Tail(s)) ELSE s

HasExtension(path) == 46 \in Range(DropLeadingDots(BaseName(path)))

\* a directory and every directory above it, up to the output directory <<>>
RECURSIVE Ancestors(_)
Ancestors(d) == IF d = <<>> THEN {<<>>} ELSE {d} \cup Ancestors(DirName(d))

\* os.makedirs(d, exist_ok=True) raises when d or a directory above it is a file
MakedirsFails(fs_tree, d) == \E a \in Ancestors(d) : a \in DOMAIN fs_tree

\* open(path, "wb") raises when path is a directory (the output directory itself
\* for an empty name), names no file, or lies in no directory
OpenFails(fs_dirs, fs_tree, path) ==
    \/ path \in fs_dirs
    \/ BaseName(path) \in {<<>>, <<46>>, <<46, 46>>}
    \/ DirName(path) \notin fs_dirs

\* f.seek(off); f.read(size): what the file holds from off on, size bytes at most
ReadAt(file, off, size) ==
    IF off[1] > 0 \/ off[2] >= Len(file) THEN <<>>
    ELSE SubSeq(file, off[2] + 1,
                IF size[1] > 0 \/ off[2] + size[2] > Len(file)
                THEN Len(file) ELSE off[2] + size[2])

\* struct.unpack("<III", chunk)
UnpackRecord(chunk) ==
    [hash   |-> UnpackU32(SubSeq(chunk, 1, 4)),
     offset |-> UnpackU32(SubSeq(chunk, 5, 8)),
     size   |-> UnpackU32(SubSeq(chunk, 9, 12))]

\* struct.pack('<III', dwHash, off, sz), for values in range
PackRecord(dwHash, off, sz) == PackU32(dwHash) \o PackU32(off) \o PackU32(sz)

----------------------------------------------------------------------------
(* The extractor of undat.py: main.                                        *)

\* f.seek(pos); f.read(12) at a small position
ReadChunk(file, pos) == ReadAt(file, Nat2W(pos), <<0, 12>>)

\* list_fp.write(f"{possible_name}.EVO" + "\n"); list_fp.write(f"{possible_name}.DDS" + "\n")
\* on a file opened with "a", which creates it when absent
AppendLearned(file, possible_name) ==
    (IF file = NoFile THEN <<>> ELSE file)
        \o possible_name \o <<46, 69, 86, 79, 10>>
        \o possible_name \o <<46, 68, 68, 83, 10>>

\* Lines 189-225: where the blob goes, and whether a name is learned on the way.
undat_plan(map, dwHash, data) ==
    IF dwHash \in DOMAIN map
    THEN [learn |-> FALSE, name |-> map[dwHash], save_path |-> Sanitize(map[dwHash])]
    ELSE LET ext_guess == guess_extension_undat(data)
             possible_name == extract_eobj_internal_name(data)
         IN  IF ext_guess = <<101, 111, 98, 106>> /\ possible_name # <<>>
             THEN [learn |-> TRUE, name |-> possible_name,
                   save_path |-> Sanitize(possible_name) \o <<46, 69, 86, 79>>]
             ELSE [learn |-> FALSE, name |-> <<>>,
                   save_path |-> DecStr(dwHash) \o <<46>> \o ext_guess]

\* Lines 157-171: load the list, make the output directory, open the archive.
undat_start ==
    /\ variant = "undat" /\ xpc = "idle" /\ bpc = "idle"
    /\ name_map' = load_filenames_list_undat(listFile)
    /\ dirs' = dirs \cup {<<>>}
    /\ processed_files' = {}
    /\ loop' = 0
    /\ xpc' = IF datFile = NoFile THEN "crashed" ELSE "loop"
    /\ UNCHANGED <<variant, listFile, datFile, tree, entries, reads, writes,
                   learned, bpc, b_files, b_entries, outDat>>
    /\ UNCHANGED <<hvars, fvars>>

\* Lines 172-230: one pass of the while loop.
undat_iter ==
    /\ variant = "undat" /\ xpc = "loop"
    /\ LET chunk == ReadChunk(datFile, loop)
           rec   == UnpackRecord(chunk)
           data  == ReadAt(datFile, rec.offset, rec.size)
           plan  == undat_plan(name_map, rec.hash, data)
       IN  IF Len(chunk) < 12 \/ rec.hash = <<0, 0>>
           THEN /\ xpc' = "done"
                /\ UNCHANGED <<listFile, dirs, tree, name_map, processed_files,
                               loop, reads, writes, learned>>
           ELSE IF rec.hash \in processed_files
           THEN /\ loop' = loop + 12
                /\ UNCHANGED <<listFile, dirs, tree, xpc, name_map, processed_files,
                               reads, writes, learned>>
           ELSE /\ processed_files' = processed_files \cup {rec.hash}
                /\ reads' = Append(reads, rec)
                /\ name_map' = IF plan.learn THEN Put(name_map, rec.hash, plan.name)
                               ELSE name_map
                /\ listFile' = IF plan.learn THEN AppendLearned(listFile, plan.name)
                               ELSE listFile
                /\ learned' = IF plan.learn
                              THEN Append(learned, [hash |-> rec.hash, name |-> plan.name])
                              ELSE learned
                /\ IF OpenFails(dirs, tree, plan.save_path)
                   THEN /\ xpc' = "crashed"
                        /\ UNCHANGED <<tree, writes, loop>>
                   ELSE /\ tree' = Put(tree, plan.save_path, data)
                        /\ writes' = Append(writes, [hash |-> rec.hash,
                                                     path |-> plan.save_path,
                                                     data |-> data])
                        /\ loop' = loop + 12
                        /\ xpc' = xpc
                /\ UNCHANGED dirs
    /\ UNCHANGED <<variant, datFile, entries, bpc, b_files, b_entries, outDat>>
    /\ UNCHANGED <<hvars, fvars>>

----------------------------------------------------------------------------
(* unpack_dat of main.py and of new.py.                                    *)

\* ParseTable gone wrong: the record of hash 0 does not end the loop.
RECURSIVE ParseTable_nosentinel(_, _)
ParseTable_nosentinel(file, pos) ==
    LET chunk == ReadChunk(file, pos)
    IN  IF Len(chunk) < 12 THEN <<>>
        ELSE <<UnpackRecord(chunk)>> \o ParseTable_nosentinel(file, pos + 12)

\* The table loop: records up to the first whose hash is 0 or that is short.
RECURSIVE ParseTable(_, _)
ParseTable(file, pos) ==
    LET chunk == ReadChunk(file, pos)
    IN  IF Len(chunk) < 12 \/ UnpackRecord(chunk).hash = <<0, 0>> THEN <<>>
        ELSE <<UnpackRecord(chunk)>> \o ParseTable(file, pos + 12)

\* "__Unknown/" followed by f"{dwHash:08X}"
UnknownName(dwHash) ==
    <<95, 95, 85, 110, 107, 110, 111, 119, 110, 47>> \o Hex8(dwHash)

\* main.py lines 154-160
main_filename(map, dwHash) ==
    IF dwHash \in DOMAIN map THEN map[dwHash] ELSE UnknownName(dwHash)

\* new.py lines 167-189
new_candidate_name(map, dwHash, data) ==
    LET candidate_name == IF dwHash \in DOMAIN map THEN map[dwHash]
                          ELSE UnknownName(dwHash)
    IN  IF HasExtension(candidate_name) THEN candidate_name
        ELSE candidate_name \o <<46>> \o guess_extension_new(data)

\* main.py lines 127-150, new.py lines 137-162: up to the parsed table.  `loop`
\* counts the entries extracted.
unpack_dat_start ==
    /\ variant \in {"main", "new"} /\ xpc = "idle" /\ bpc = "idle"
    /\ IF datFile = NoFile
       THEN /\ xpc' = "done"
            /\ UNCHANGED <<dirs, name_map, entries, loop>>
       ELSE /\ dirs' = IF variant = "new" THEN dirs \cup {<<>>} ELSE dirs
            /\ name_map' = load_hash_list(listFile)
            /\ entries' = ParseTable(datFile, 0)
            /\ loop' = 0
            /\ xpc' = IF ParseTable(datFile, 0) = <<>> THEN "done" ELSE "loop"
    /\ UNCHANGED <<variant, listFile, datFile, tree, processed_files, reads, writes,
                   learned, bpc, b_files, b_entries, outDat>>
    /\ UNCHANGED <<hvars, fvars>>

\* main.py lines 153-172, new.py lines 165-199: one pass of the for loop.
unpack_dat_entry ==
    /\ variant \in {"main", "new"} /\ xpc = "loop" /\ loop < Len(entries)
    /\ LET rec  == entries[loop + 1]
           data == ReadAt(datFile, rec.offset, rec.size)
           name == IF variant = "main" THEN main_filename(name_map, rec.hash)
                   ELSE new_candidate_name(name_map, rec.hash, data)
           made == dirs \cup Ancestors(DirName(name))
       IN  IF MakedirsFails(tree, DirName(name))
           THEN /\ xpc' = "crashed"
                /\ reads' = IF variant = "new" THEN Append(reads, rec) ELSE reads
                /\ UNCHANGED <<dirs, tree, writes, loop>>
           ELSE /\ dirs' = made
                /\ reads' = Append(reads, rec)
                /\ IF OpenFails(made, tree, name)
                   THEN /\ xpc' = "crashed"
                        /\ UNCHANGED <<tree, writes, loop>>
                   ELSE /\ tree' = Put(tree, name, data)
                        /\ writes' = Append(writes, [hash |-> rec.hash, path |-> name,
                                                     data |-> data])
                        /\ loop' = loop + 1
                        /\ xpc' = IF loop + 1 = Len(entries) THEN "done" ELSE "loop"
    /\ UNCHANGED <<variant, listFile, datFile, name_map, processed_files, entries,
                   learned, bpc, b_files, b_entries, outDat>>
    /\ UNCHANGED <<hvars, fvars>>

----------------------------------------------------------------------------
(* The builders: main of redat.py, repack_dat of main.py and new.py.       *)

\* os.walk lists a directory's files together, and before those of the
\* directories below it; the order inside a directory is the file system's.
WalkOrders(fs_tree) ==
    {o \in Orderings(DOMAIN fs_tree) :
        \A i, k \in 1..Len(o) :
            /\ (DirName(o[i]) # DirName(o[k])
                /\ DirName(o[i]) \in Ancestors(DirName(o[k]))) => i < k
            /\ (i < k /\ DirName(o[i]) = DirName(o[k]))
                   => \A m \in i..k : DirName(o[m]) = DirName(o[i])}

\* redat.py line 125: {v: k for k, v in filenames_list.items()}, of which only
\* the keys are used
mapped_files(filenames_list) == {filenames_list[k] : k \in DOMAIN filenames_list}

\* lines 148-151 hashing every path, as main.py line 246 does
redat_hash_always(mapped, relpath) ==
    [ok |-> TRUE, neg |-> FALSE, val |-> ce_hash(StrLower(relpath))]

\* redat.py lines 148-151.  ok = FALSE stands for the ValueError of int().
redat_hash(mapped, relpath) ==
    IF relpath \in mapped
    THEN [ok |-> TRUE, neg |-> FALSE, val |-> ce_hash(StrLower(relpath))]
    ELSE ParseInt(Head(Split(relpath, {46})))

\* main.py line 246, new.py line 243
repack_hash(relpath) ==
    [ok |-> TRUE, neg |-> FALSE, val |-> ce_hash(StrLower(relpath))]

\* The fingerprint the builder gives each file of the tree, as the set of
\* <<relpath, fingerprint>>: redat.py lines 148-151 for every file.
redat_hashes(fs_tree, mapped) == {<<p, redat_hash(mapped, p)>> : p \in DOMAIN fs_tree}

\* main.py line 246, new.py line 243 for every file.
repack_hashes(fs_tree) == {<<p, repack_hash(p)>> : p \in DOMAIN fs_tree}

Lookup(table, p) == (CHOOSE x \in table : x[1] = p)[2]

\* The loop that builds the entries (redat.py lines 143-156; main.py lines
\* 237-266 and new.py lines 234-256 in their two loops): each file takes its
\* fingerprint and the running offset, which then grows by the file's size.
RECURSIVE BuildEntries(_, _, _, _, _)
BuildEntries(files, fs_tree, table, current_offset, acc) ==
    IF files = <<>> THEN [raised |-> FALSE, entries |-> acc]
    ELSE LET relpath == Head(files)
             fsize   == Nat2W(Len(fs_tree[relpath]))
             h       == Lookup(table, relpath)
         IN  IF ~h.ok THEN [raised |-> TRUE, entries |-> acc]
             ELSE BuildEntries(Tail(files), fs_tree, table,
                               WAdd(current_offset, fsize),
                               Append(acc, [hash |-> h.val, neg |-> h.neg,
                                            offset |-> current_offset,
                                            size |-> fsize, path |-> relpath]))

\* struct.pack('<III', ...) raises struct.error unless each value is in 0..2^32-1
Packable(e) == ~e.neg /\ IsU32(e.hash) /\ IsU32(e.offset) /\ IsU32(e.size)

\* Pass 1: the table records, up to the first that struct.pack refuses.
RECURSIVE WriteTable(_)
WriteTable(es) ==
    IF es = <<>> THEN <<>>
    ELSE IF ~Packable(Head(es)) THEN <<>>
    ELSE PackRecord(Head(es).hash, Head(es).offset, Head(es).size) \o WriteTable(Tail(es))

\* Pass 2: every file's bytes, in the entries' order.
RECURSIVE WriteData(_, _)
WriteData(es, fs_tree) ==
    IF es = <<>> THEN <<>> ELSE fs_tree[Head(es).path] \o WriteData(Tail(es), fs_tree)

\* WriteArchive gone wrong: the final zero record is left out.
WriteArchive_nozero(es, fs_tree) == WriteTable(es) \o WriteData(es, fs_tree)

\* The bytes of the output file when the with block is left.
WriteArchive(es, fs_tree) ==
    IF \A i \in 1..Len(es) : Packable(es[i])
    THEN WriteTable(es) \o PackRecord(<<0, 0>>, <<0, 0>>, <<0, 0>>) \o WriteData(es, fs_tree)
    ELSE WriteTable(es)

\* From the enumerated files to the state the builder ends in.
Build(files, table) ==
    LET table_size == Nat2W((Len(files) + 1) * 12)
        built == BuildEntries(files, tree, table, table_size, <<>>)
    IN  /\ b_files' = files
        /\ b_entries' = built.entries
        /\ IF built.raised
           THEN bpc' = "crashed" /\ outDat' = outDat
           ELSE /\ outDat' = WriteArchive(built.entries, tree)
                /\ bpc' = IF \A i \in 1..Len(built.entries) : Packable(built.entries[i])
                          THEN "done" ELSE "crashed"

\* redat.py lines 118-175.  The fingerprints are computed once, whatever the
\* order of the enumeration.
redat_main ==
    /\ variant = "undat" /\ bpc = "idle" /\ xpc \in {"idle", "done", "crashed"}
    /\ \E table \in {redat_hashes(tree, mapped_files(load_filenames_list_redat(listFile)))} :
           \E files \in WalkOrders(tree) : Build(files, table)
    /\ UNCHANGED <<variant, listFile, datFile, dirs, tree, xpc, name_map,
                   processed_files, loop, entries, reads, writes, learned>>
    /\ UNCHANGED <<hvars, fvars>>

\* main.py lines 177-284, new.py lines 204-271
repack_dat ==
    /\ variant \in {"main", "new"} /\ bpc = "idle" /\ xpc \in {"idle", "done", "crashed"}
    /\ \E table \in {repack_hashes(tree)} :
           \E files \in WalkOrders(tree) : Build(files, table)
    /\ UNCHANGED <<variant, listFile, datFile, dirs, tree, xpc, name_map,
                   processed_files, loop, entries, reads, writes, learned>>
    /\ UNCHANGED <<hvars, fvars>>

----------------------------------------------------------------------------
(* ce_hash as a loop: lines 58-62 set the locals, each step is one pass of *)
(* the for loop, the return is line 77.                                    *)

ce_hash_step ==
    /\ h_pc = "loop" /\ h_i < 8 * Len(h_text)
    /\ h_reg' = ce_hash_body(h_reg, EncodeAsciiIgnore(h_text))
    /\ h_i' = h_i + 1
    /\ UNCHANGED <<h_text, h_pc, h_result>>
    /\ UNCHANGED <<svars, fvars>>

ce_hash_return ==
    /\ h_pc = "loop" /\ h_i = 8 * Len(h_text)
    /\ h_result' = <<h_reg.hi % 65536, h_reg.lo>>
    /\ h_pc' = "returned"
    /\ UNCHANGED <<h_text, h_i, h_reg>>
    /\ UNCHANGED <<svars, fvars>>

----------------------------------------------------------------------------
(* The classifiers called on one blob, one after the other: guess_extension *)
(* of undat.py (lines 106-135), guess_extension of new.py (lines 83-122),   *)
(* extract_eobj_internal_name of undat.py (lines 137-153).                  *)

sniff_undat ==
    /\ s_pc = "undat"
    /\ s_undat' = guess_extension_undat(s_data)
    /\ s_pc' = "new"
    /\ UNCHANGED <<s_data, s_new, s_name, c_list, c_pc, c_undat, c_redat, c_main>>
    /\ UNCHANGED <<svars, hvars>>

sniff_new ==
    /\ s_pc = "new"
    /\ s_new' = guess_extension_new(s_data)
    /\ s_pc' = "name"
    /\ UNCHANGED <<s_data, s_undat, s_name, c_list, c_pc, c_undat, c_redat, c_main>>
    /\ UNCHANGED <<svars, hvars>>

sniff_name ==
    /\ s_pc = "name"
    /\ s_name' = extract_eobj_internal_name(s_data)
    /\ s_pc' = "done"
    /\ UNCHANGED <<s_data, s_undat, s_new, c_list, c_pc, c_undat, c_redat, c_main>>
    /\ UNCHANGED <<svars, hvars>>

----------------------------------------------------------------------------
(* The loaders called on one name list, one after the other:                *)
(* load_filenames_list of undat.py (lines 82-103) and of redat.py (lines    *)
(* 68-101), load_hash_list of main.py (lines 72-108) and new.py (45-78).    *)

load_undat ==
    /\ c_pc = "undat"
    /\ c_undat' = load_filenames_list_undat(c_list)
    /\ c_pc' = "redat"
    /\ UNCHANGED <<s_data, s_pc, s_undat, s_new, s_name, c_list, c_redat, c_main>>
    /\ UNCHANGED <<svars, hvars>>

load_redat ==
    /\ c_pc = "redat"
    /\ c_redat' = load_filenames_list_redat(c_list)
    /\ c_pc' = "main"
    /\ UNCHANGED <<s_data, s_pc, s_undat, s_new, s_name, c_list, c_undat, c_main>>
    /\ UNCHANGED <<svars, hvars>>

load_main ==
    /\ c_pc = "main"
    /\ c_main' = load_hash_list(c_list)
    /\ c_pc' = "done"
    /\ UNCHANGED <<s_data, s_pc, s_undat, s_new, s_name, c_list, c_undat, c_redat>>
    /\ UNCHANGED <<svars, hvars>>

----------------------------------------------------------------------------
(* The inputs.                                                             *)

MaxRecs == 2        \* table records of an input archive
MaxText == 5        \* characters of a text given to ce_hash

\* "a.b", "a.b/c", "?", "fo.evo"
Name_ab   == <<97, 46, 98>>
Name_ab_c == <<97, 46, 98, 47, 99>>
Name_q    == <<63>>
Name_fo   == <<102, 111, 46, 101, 118, 111>>

\* The name lists: none; "a.b" without a line end; two names, one in a
\* directory; a name of nothing but an illegal character, a blank line and a
\* padded name; two names that differ in case only.
NameLists ==
    {NoFile,
     <<97, 46, 98>>,
     <<97, 46, 98, 10, 97, 46, 98, 47, 99, 10>>,
     <<63, 10, 10, 32, 97, 46, 98, 32, 10>>,
     <<97, 46, 98, 10, 65, 46, 66, 10>>}

\* The blobs: a DDS header; the text "text"; an embedded object named " Fo";
\* an embedded object without a name; three bytes, one of them high.  Two of
\* the records below share the fingerprint 7 and differ in their blob; the
\* last has the largest fingerprint, 2^32 - 1, which no listed name has.
Blob_dds  == <<68, 68, 83, 32, 1>>
Blob_txt  == <<116, 101, 120, 116>>
Blob_eobj == <<69, 79, 66, 74, 1, 0, 0, 0, 32, 70, 111, 0>>
Blob_anon == <<69, 79, 66, 74, 1, 0, 0, 0, 0>>
Blob_bin  == <<200, 1, 2>>

\* What a table record of an input archive may be: a fingerprint and its blob.
RecordChoices ==
    {[hash |-> ce_hash(StrLower(Name_ab)),   blob |-> Blob_dds],
     [hash |-> ce_hash(StrUpper(Name_ab)),   blob |-> Blob_txt],
     [hash |-> ce_hash(StrLower(Name_ab_c)), blob |-> Blob_txt],
     [hash |-> ce_hash(StrLower(Name_q)),    blob |-> Blob_bin],
     [hash |-> <<0, 7>>,                     blob |-> Blob_eobj],
     [hash |-> <<0, 7>>,                     blob |-> Blob_anon],
     [hash |-> ce_hash(StrLower(Name_fo)),   blob |-> Blob_eobj],
     [hash |-> <<65535, 65535>>,             blob |-> Blob_bin]}

LE4(n) == <<n % 256, (n \div 256) % 256, 0, 0>>

RECURSIVE InputTable(_, _)
InputTable(rs, pos) ==
    IF rs = <<>> THEN <<>>
    ELSE <<Head(rs).hash[2] % 256, Head(rs).hash[2] \div 256,
           Head(rs).hash[1] % 256, Head(rs).hash[1] \div 256>>
         \o LE4(pos) \o LE4(Len(Head(rs).blob))
         \o InputTable(Tail(rs), pos + Len(Head(rs).blob))

\* A well-formed archive: the records, an all-zero record, the blobs.
InputArchive(rs) ==
    InputTable(rs, 12 * (Len(rs) + 1))
        \o <<0, 0, 0, 0, 0, 0, 0, 0, 0, 0, 0, 0>>
        \o Flatten([i \in 1..Len(rs) |-> rs[i].blob])

\* Archives that end early: an empty file, and a record (of size 0) followed by
\* five bytes.
ShortArchives == {<<>>, <<7, 0, 0, 0, 12, 0, 0, 0, 0, 0, 0, 0, 1, 2, 3, 4, 5>>}

Archives ==
    {InputArchive(rs) : rs \in SeqsUpTo(RecordChoices, MaxRecs)} \cup ShortArchives

\* The characters of the texts ce_hash is given: "a", ".", and the non-ASCII
\* e with an acute accent.
HashAlphabet == {97, 46, 233}

\* The directories redat.py may be pointed at when nothing was extracted into
\* it: at most MaxFiles files, each named by a number and an extension, by a
\* listed name, or by a number that int() reads as negative or as 2^32.
MaxFiles == 2       \* files of a source directory that was not extracted

SourceNames ==
    {<<48, 46, 98, 105, 110>>,                                 \* "0.bin"
     <<55, 46, 101, 111, 98, 106>>,                            \* "7.eobj"
     <<45, 53, 46, 98>>,                                       \* "-5.b"
     <<52, 50, 57, 52, 57, 54, 55, 50, 57, 54, 46, 98>>,       \* "4294967296.b"
     Name_ab}

SourceTrees ==
    {[p \in S |-> <<Len(p), 1>>] :
        S \in {T \in SUBSET SourceNames : T # {} /\ Cardinality(T) <= MaxFiles}}

\* The blobs the classifiers are given.  Short ones; every four bytes whose
\* i-th byte is the i-th byte of some signature, a zero byte, or a byte that
\* is not printable ASCII, followed by nothing, a zero byte or a high byte;
\* embedded objects with a name of at most MaxRun characters, ended by the end
\* of the blob, a zero byte or a DEL; and 255 and 256 letters x followed by a
\* high byte, which is then the 256th byte or the 257th.
MaxRun == 2         \* characters of an embedded name

SniffByte1 == {68, 80, 83, 69, 105, 66, 2, 0, 200}
SniffByte2 == {68, 83, 67, 79, 109, 76, 80, 77, 0, 200}
SniffByte3 == {83, 70, 72, 66, 103, 79, 78, 0, 127}
SniffByte4 == {32, 74, 102, 67, 71, 0, 200}

SniffTails == {<<>>, <<0>>, <<200>>}

EobjBlobs ==
    {<<69, 79, 66, 74, 1, 0, 0, 0>> \o run \o rest :
        run \in SeqsUpTo({32, 70}, MaxRun), rest \in {<<>>, <<0>>, <<127, 70>>}}

LongBlobs == {[i \in 1..k |-> 120] \o <<200>> : k \in {255, 256}}

SniffInputs ==
    SeqsUpTo({68, 0, 200}, 3)
    \cup {<<a, b, c, d>> \o t : a \in SniffByte1, b \in SniffByte2, c \in SniffByte3,
                                d \in SniffByte4, t \in SniffTails}
    \cup EobjBlobs
    \cup LongBlobs

\* The name lists the loaders are given: at most MaxLines lines, each ended
\* by a line feed.
MaxLines == 3       \* lines of a name list

CatalogLines == {<<97, 46, 98>>, <<65, 46, 66>>, <<32, 97, 46, 98, 9>>, <<>>,
                 <<233>>, <<232>>, <<223>>}

CatalogLists ==
    {NoFile} \cup {Flatten([i \in 1..Len(ls) |-> ls[i] \o <<10>>]) :
                     ls \in SeqsUpTo(CatalogLines, MaxLines)}

----------------------------------------------------------------------------
(* The specifications.                                                     *)

HashIdle ==
    /\ h_text = <<>> /\ h_pc = "idle" /\ h_i = 0
    /\ h_reg = ce_hash_start /\ h_result = <<0, 0>>

SniffIdle ==
    /\ s_data = <<>> /\ s_pc = "idle"
    /\ s_undat = <<>> /\ s_new = <<>> /\ s_name = <<>>

CatalogIdle ==
    /\ c_list = NoFile /\ c_pc = "idle"
    /\ c_undat = EmptyMap /\ c_redat = EmptyMap /\ c_main = EmptyMap

ToolsIdle ==
    /\ variant = "undat" /\ listFile = NoFile /\ datFile = NoFile
    /\ dirs = {} /\ tree = EmptyMap /\ xpc = "idle" /\ name_map = EmptyMap
    /\ processed_files = {} /\ loop = 0 /\ entries = <<>>
    /\ reads = <<>> /\ writes = <<>> /\ learned = <<>>
    /\ bpc = "idle" /\ b_files = <<>> /\ b_entries = <<>> /\ outDat = NoFile

Init ==
    /\ variant \in {"undat", "main", "new"}
    /\ listFile \in NameLists
    /\ \/ /\ datFile \in Archives \cup {NoFile}
          /\ dirs = {}
          /\ tree = EmptyMap
       \/ /\ datFile = NoFile
          /\ dirs = {<<>>}
          /\ tree \in SourceTrees
    /\ xpc = "idle"
    /\ name_map = EmptyMap
    /\ processed_files = {}
    /\ loop = 0
    /\ entries = <<>>
    /\ reads = <<>>
    /\ writes = <<>>
    /\ learned = <<>>
    /\ bpc = "idle"
    /\ b_files = <<>>
    /\ b_entries = <<>>
    /\ outDat = NoFile
    /\ HashIdle
    /\ SniffIdle
    /\ CatalogIdle

Next ==
    \/ undat_start
    \/ undat_iter
    \/ unpack_dat_start
    \/ unpack_dat_entry
    \/ redat_main
    \/ repack_dat

Spec == Init /\ [][Next]_vars

\* ce_hash alone, on every text of at most MaxText characters.
HashInit ==
    /\ ToolsIdle
    /\ h_text \in SeqsUpTo(HashAlphabet, MaxText)
    /\ h_pc = "loop" /\ h_i = 0 /\ h_reg = ce_hash_start /\ h_result = <<0, 0>>
    /\ SniffIdle
    /\ CatalogIdle

HashNext == ce_hash_step \/ ce_hash_return

SpecHash == HashInit /\ [][HashNext]_vars

\* The classifiers alone, on every blob of SniffInputs.
SniffInit ==
    /\ ToolsIdle
    /\ HashIdle
    /\ s_data \in SniffInputs
    /\ s_pc = "undat" /\ s_undat = <<>> /\ s_new = <<>> /\ s_name = <<>>
    /\ CatalogIdle

SniffNext == sniff_undat \/ sniff_new \/ sniff_name

SpecSniff == SniffInit /\ [][SniffNext]_vars

\* The loaders alone, on every name list of CatalogLists.
CatalogInit ==
    /\ ToolsIdle
    /\ HashIdle
    /\ SniffIdle
    /\ c_list \in CatalogLists
    /\ c_pc = "undat" /\ c_undat = EmptyMap /\ c_redat = EmptyMap /\ c_main = EmptyMap

CatalogNext == load_undat \/ load_redat \/ load_main

SpecCatalog == CatalogInit /\ [][CatalogNext]_vars

----------------------------------------------------------------------------
(* What the properties speak of, read off the bytes of a stream directly.  *)

\* The value of a small <<hi, lo>>.
Val(w) == w[1] * 65536 + w[2]

\* The i-th 12-byte record of a stream, i from 1.
RecordAt(file, i) == UnpackRecord(SubSeq(file, 12 * i - 11, 12 * i))

\* The stream is k - 1 records of non-zero fingerprint, then one of fingerprint 0.
SentinelAt(file, k) ==
    /\ 12 * k <= Len(file)
    /\ RecordAt(file, k).hash = <<0, 0>>
    /\ \A i \in 1..(k - 1) : RecordAt(file, i).hash # <<0, 0>>

HasSentinel(file) ==
    file # NoFile /\ \E k \in 1..(Len(file) \div 12) : SentinelAt(file, k)

\* The records before the sentinel, in stream order.
StreamRecords(file) ==
    LET k == CHOOSE k \in 1..(Len(file) \div 12) : SentinelAt(file, k)
    IN  [i \in 1..(k - 1) |-> RecordAt(file, i)]

DistinctHashes(recs) ==
    \A i, k \in 1..Len(recs) : recs[i].hash = recs[k].hash => i = k

IsPrefix(s, t) == Len(s) <= Len(t) /\ SubSeq(t, 1, Len(s)) = s

\* The blob a record addresses in a stream.
BlobOf(file, rec) == ReadAt(file, rec.offset, rec.size)

\* The catalog the running script loads from the name list.
Catalog ==
    IF variant = "undat" THEN load_filenames_list_undat(listFile)
    ELSE load_hash_list(listFile)

----------------------------------------------------------------------------
(* C1.                                                                     *)

\* C1: round trip.  For an archive whose entries all resolve through the name
\* list, once the extractor has finished and the builder has run on the
\* directory it produced (same name list), the builder has written an archive
\* that holds, for every original entry, the same blob under the same
\* fingerprint.
C1_RoundTrip ==
    (/\ xpc = "done" /\ bpc # "idle"
     /\ HasSentinel(datFile)
     /\ \A i \in 1..Len(StreamRecords(datFile)) :
            StreamRecords(datFile)[i].hash \in DOMAIN Catalog)
    => /\ bpc = "done"
       /\ HasSentinel(outDat)
       /\ \A i \in 1..Len(StreamRecords(datFile)) :
              \E k \in 1..Len(StreamRecords(outDat)) :
                  /\ StreamRecords(outDat)[k].hash = StreamRecords(datFile)[i].hash
                  /\ BlobOf(outDat, StreamRecords(outDat)[k])
                         = BlobOf(datFile, StreamRecords(datFile)[i])

----------------------------------------------------------------------------
(* C2.                                                                     *)

\* C2: builder offset invariant.  When the builder has written its archive for
\* the n enumerated files, the first record's offset is 12 * (n + 1), each
\* later record's offset is the previous record's offset plus its size, and
\* record i is the record of the i-th enumerated file (its fingerprint, its
\* size).
C2_BuilderOffsetInvariant ==
    bpc = "done" =>
        LET n == Len(b_files)
        IN  /\ 12 * (n + 1) <= Len(outDat)
            /\ n > 0 => Val(RecordAt(outDat, 1).offset) = 12 * (n + 1)
            /\ \A i \in 1..(n - 1) :
                   Val(RecordAt(outDat, i + 1).offset)
                       = Val(RecordAt(outDat, i).offset) + Val(RecordAt(outDat, i).size)
            /\ \A i \in 1..n :
                   /\ b_entries[i].path = b_files[i]
                   /\ RecordAt(outDat, i).hash = b_entries[i].hash
                   /\ Val(RecordAt(outDat, i).size) = Len(tree[b_files[i]])

\* C2's case: an archive built from two files, the first of them not empty.
C2_Witness ==
    /\ bpc = "done" /\ Len(b_files) = 2
    /\ Len(tree[b_files[1]]) > 0
    /\ Len(tree[b_files[1]]) # Len(tree[b_files[2]])

----------------------------------------------------------------------------
(* C3.                                                                     *)

\* C3: table parser termination.  For a stream of N records with non-zero,
\* pairwise distinct fingerprints, then a record of fingerprint 0, then any
\* bytes: the table main.py and new.py parse is exactly the N records in
\* stream order; the records undat.py's loop takes up are at every moment the
\* first of the N in stream order, and all N once the loop has ended.
C3_TableParserTermination ==
    (HasSentinel(datFile) /\ DistinctHashes(StreamRecords(datFile))) =>
        /\ (variant \in {"main", "new"} /\ xpc # "idle")
               => entries = StreamRecords(datFile)
        /\ variant = "undat" => IsPrefix(reads, StreamRecords(datFile))
        /\ (variant = "undat" /\ xpc = "done") => reads = StreamRecords(datFile)

\* C3's case: a parsed table of two records, from a stream that goes on for
\* twelve bytes or more after its sentinel.
C3_Witness ==
    /\ variant \in {"main", "new"} /\ xpc = "loop"
    /\ HasSentinel(datFile) /\ DistinctHashes(StreamRecords(datFile))
    /\ Len(entries) = 2
    /\ Len(datFile) >= 12 * 3 + 12

----------------------------------------------------------------------------
(* C4.                                                                     *)

\* C4: duplicate fingerprint.  When the extraction of a stream has finished
\* and two records before the sentinel share a fingerprint, exactly one file
\* was written for that fingerprint, its content is the blob the first of the
\* records addresses, and exactly one blob was read for it.
C4_DuplicateFingerprint ==
    (xpc = "done" /\ HasSentinel(datFile)) =>
        \A i, k \in 1..Len(StreamRecords(datFile)) :
            LET recs == StreamRecords(datFile)
                h    == recs[i].hash
            IN  (/\ i < k /\ recs[k].hash = h
                 /\ \A m \in 1..(i - 1) : recs[m].hash # h)
                => /\ Cardinality({w \in 1..Len(writes) : writes[w].hash = h}) = 1
                   /\ \A w \in 1..Len(writes) :
                          writes[w].hash = h => writes[w].data = BlobOf(datFile, recs[i])
                   /\ Cardinality({r \in 1..Len(reads) : reads[r].hash = h}) = 1

----------------------------------------------------------------------------
(* C5.                                                                     *)

\* C5: self-learning persistence.  Whenever undat.py has learned a name for a
\* fingerprint, loading the catalog from the name list as it then stands maps
\* that fingerprint to the learned name.
C5_LearnedNamePersists ==
    learned # <<>> =>
        \A i \in 1..Len(learned) :
            /\ learned[i].hash \in DOMAIN load_filenames_list_undat(listFile)
            /\ load_filenames_list_undat(listFile)[learned[i].hash] = learned[i].name

----------------------------------------------------------------------------
(* C6.                                                                     *)

\* The lines of a text file: its pieces between line feeds, the empty piece
\* after a final line feed set aside.
FileLines(file) ==
    IF file = NoFile \/ file = <<>> THEN <<>>
    ELSE LET pieces == Split(file, {10})
         IN  IF pieces[Len(pieces)] = <<>> THEN SubSeq(pieces, 1, Len(pieces) - 1)
             ELSE pieces

\* C6: in every step, if the extractor recovers a name N from a blob then the
\* name list's lines become the lines it had, unchanged, followed by exactly
\* "N.EVO" and "N.DDS"; in every other step the name list is not touched.
C6_AppendsTwoLines ==
    [][IF learned' # learned
       THEN FileLines(listFile')
                = FileLines(listFile)
                      \o <<learned'[Len(learned')].name \o <<46, 69, 86, 79>>,
                           learned'[Len(learned')].name \o <<46, 68, 68, 83>>>>
       ELSE listFile' = listFile]_vars

----------------------------------------------------------------------------
(* C7.                                                                     *)

----------------------------------------------------------------------------
(* C8.  The shift register of the description, as the set of the positions *)
(* of its bits that are 1.                                                 *)

LfsrStart == {0}

\* One iteration: shift left by one within 32 bits; the new bit 0 is the
\* exclusive or of bits 31, 21, 1, 0 of the old register and of x.
LfsrStep(R, x) ==
    {k + 1 : k \in R \ {31}}
        \cup (IF (Cardinality(R \cap {31, 21, 1, 0}) + x) % 2 = 1 THEN {0} ELSE {})

\* The bytes of the text's ASCII encoding: the characters above 127 are dropped.
RECURSIVE AsciiBytes(_)
AsciiBytes(text) ==
    IF text = <<>> THEN <<>>
    ELSE (IF Head(text) <= 127 THEN <<Head(text)>> ELSE <<>>) \o AsciiBytes(Tail(text))

\* X of iteration i, from 0: bit (i mod 8) of byte (i div 8), 0 past the bytes.
InputBit(text, i) ==
    IF i \div 8 < Len(AsciiBytes(text))
    THEN (AsciiBytes(text)[(i \div 8) + 1] \div (2 ^ (i % 8))) % 2
    ELSE 0

\* The register after n iterations on the text.
RECURSIVE LfsrAfter(_, _)
LfsrAfter(text, n) ==
    IF n = 0 THEN LfsrStart
    ELSE LfsrStep(LfsrAfter(text, n - 1), InputBit(text, n - 1))

\* The positions of the 1 bits of the value <<hi, lo>>.
BitsOf(w) ==
    {k \in 0..15 : (w[2] \div (2 ^ k)) % 2 = 1}
        \cup {k + 16 : k \in {m \in 0..15 : (w[1] \div (2 ^ m)) % 2 = 1}}

\* C8: ce_hash is the described shift register.  When ce_hash returns, it has
\* made exactly 8 * len(text) iterations; its result is the register after
\* that many iterations from 1, X walking the ASCII bytes least significant
\* bit first and being 0 past them; the result is in 0..2^32-1; it is 1 for the
\* empty text; and it is the value the ce_hash operator gives.
C8_HashIsLfsr ==
    h_pc = "returned" =>
        /\ h_i = 8 * Len(h_text)
        /\ IsU32(h_result)
        /\ BitsOf(h_result) = LfsrAfter(h_text, 8 * Len(h_text))
        /\ h_text = <<>> => h_result = <<0, 1>>
        /\ h_result = ce_hash(h_text)

\* C8's case: the hash of five characters, some of them ASCII and some not,
\* whose bit 31 is set.
C8_Witness ==
    /\ h_pc = "returned" /\ Len(h_text) = 5
    /\ \E i \in 1..5 : h_text[i] > 127
    /\ \E i \in 1..5 : h_text[i] <= 127
    /\ h_result[1] >= 32768

----------------------------------------------------------------------------
(* C9.                                                                     *)

IsDecimal(s) == s # <<>> /\ \A i \in 1..Len(s) : IsDigit(s[i])

\* A file the builder of redat.py cannot give a fingerprint: its path is no
\* name of the catalog and what precedes its first dot is no decimal number.
Unresolved(relpath) ==
    /\ relpath \notin mapped_files(load_filenames_list_redat(listFile))
    /\ ~IsDecimal(Head(Split(relpath, {46})))

\* C9: unresolved fingerprint fallback.  When redat.py's builder has run on a
\* tree that holds an unresolved file, it has written an archive, and the
\* archive holds exactly the other files of the tree.
C9_UnresolvedFingerprintFallback ==
    (/\ variant = "undat" /\ bpc # "idle"
     /\ \E p \in DOMAIN tree : Unresolved(p))
    => /\ HasSentinel(outDat)
       /\ Len(StreamRecords(outDat))
              = Cardinality({p \in DOMAIN tree : ~Unresolved(p)})
       /\ \A p \in DOMAIN tree :
              ~Unresolved(p) =>
                  \E k \in 1..Len(StreamRecords(outDat)) :
                      BlobOf(outDat, StreamRecords(outDat)[k]) = tree[p]

----------------------------------------------------------------------------
(* C10.                                                                    *)

\* C10: blob write failure.  When the extractor has stopped on an archive, it
\* has stopped at the end of the table, not at a write that failed, and every
\* record before the sentinel has had its blob read.
C10_BlobWriteFailure ==
    (xpc \in {"done", "crashed"} /\ HasSentinel(datFile)) =>
        /\ xpc = "done"
        /\ \A i \in 1..Len(StreamRecords(datFile)) :
               \E r \in 1..Len(reads) : reads[r].hash = StreamRecords(datFile)[i].hash

\* C11  MissingInputFile: when the archive to unpack is absent, a step of the
\* extractor creates no directory, writes no file and leaves the name list as
\* it is; when the source directory to repack is absent, a step of the builder
\* writes no archive and leaves the name list and the file system as they are.
C11_MissingInputFile ==
    [][/\ (datFile = NoFile /\ xpc' # xpc)
           => (dirs' = dirs /\ tree' = tree /\ listFile' = listFile /\ outDat' = outDat)
       /\ (<<>> \notin dirs /\ bpc' # bpc)
           => (outDat' = outDat /\ dirs' = dirs /\ tree' = tree /\ listFile' = listFile)
      ]_vars

----------------------------------------------------------------------------
(* The signature rules as the specification lists them: rule k applies to  *)
(* a blob of at least four bytes when SigMatches, and then names SigExt.   *)

SigMatches(k, data) ==
    CASE k = 1 -> SubSeq(data, 1, 4) = <<68, 68, 83, 32>>       \* "DDS "
      [] k = 2 -> SubSeq(data, 1, 4) = <<80, 83, 70, 32>>       \* "PSF "
      [] k = 3 -> SubSeq(data, 1, 4) = <<83, 67, 72, 32>>       \* "SCH "
      [] k = 4 -> SubSeq(data, 1, 4) = <<69, 79, 66, 74>>       \* "EOBJ"
      [] k = 5 -> SubSeq(data, 1, 4) = <<105, 109, 103, 102>>   \* "imgf"
      [] k = 6 -> SubSeq(data, 1, 4) = <<83, 76, 79, 67>>       \* "SLOC"
      [] k = 7 -> SubSeq(data, 2, 4) = <<80, 78, 71>>           \* "PNG" at 1
      [] k = 8 -> SubSeq(data, 1, 2) = <<66, 77>>               \* "BM"
      [] k = 9 -> SubSeq(data, 1, 4) = <<2, 0, 0, 0>>

SigExt(k) ==
    CASE k = 1 -> <<100, 100, 115>>         \* dds
      [] k = 2 -> <<112, 115, 102>>         \* psf
      [] k = 3 -> <<115, 99, 104>>          \* sch
      [] k = 4 -> <<101, 111, 98, 106>>     \* eobj
      [] k = 5 -> <<105, 109, 103, 102>>    \* imgf
      [] k = 6 -> <<115, 108, 111, 99>>     \* sloc
      [] k = 7 -> <<112, 110, 103>>         \* png
      [] k = 8 -> <<98, 109, 112>>          \* bmp
      [] k = 9 -> <<98, 105, 110>>          \* bin

Ext_bin == <<98, 105, 110>>
Ext_txt == <<116, 120, 116>>

\* C12  Sniffer rule table: a blob of fewer than 4 bytes is "bin" for both
\* classifiers; on a longer blob every signature rule that matches names the
\* extension both classifiers return, so that no order of the rules can change
\* the result; and the two classifiers agree on every blob.
C12_SnifferRuleTable ==
    s_pc = "done" =>
        /\ Len(s_data) < 4 => (s_undat = Ext_bin /\ s_new = Ext_bin)
        /\ Len(s_data) >= 4 =>
               \A k \in 1..9 :
                   SigMatches(k, s_data) => (s_undat = SigExt(k) /\ s_new = SigExt(k))
        /\ s_undat = s_new

\* Both classifiers have answered "png" for "BPNG", whose first byte is that
\* of the BM rule.
C12_Witness ==
    /\ s_pc = "done"
    /\ s_data = <<66, 80, 78, 71>>
    /\ s_undat = <<112, 110, 103>> /\ s_new = <<112, 110, 103>>

\* Printable ASCII text: the printable characters, and the tab, line feed and
\* carriage return that text files hold.
IsTextByte(b) == b \in 32..126 \/ b \in {9, 10, 13}

\* C13  Sniffer fallback: on a blob of at least 4 bytes that matches no
\* signature rule, each classifier returns "txt" exactly when every one of the
\* first 256 bytes is printable ASCII text, and "bin" otherwise.
C13_SnifferFallback ==
    (s_pc = "done" /\ Len(s_data) >= 4 /\ \A k \in 1..9 : ~SigMatches(k, s_data)) =>
        LET text == \A i \in 1..Len(Take(s_data, 256)) : IsTextByte(s_data[i])
        IN  /\ s_undat = (IF text THEN Ext_txt ELSE Ext_bin)
            /\ s_new = (IF text THEN Ext_txt ELSE Ext_bin)

\* The lower-case and the upper-case fingerprint of a listed name.
HashesOf(line) == {ce_hash(StrLower(line)), ce_hash(StrUpper(line))}

\* The listed names whose fingerprints include h, by position in the list.
Listing(hs, h) == {i \in DOMAIN hs : h \in hs[i]}

Maximum(S) == CHOOSE x \in S : \A y \in S : y <= x
Minimum(S) == CHOOSE x \in S : \A y \in S : x <= y

\* C14  Catalog collision policy: after a name list is loaded, the fingerprints
\* of the mapping are exactly the lower- and upper-case hashes of the trimmed,
\* non-blank lines; under overwrite-last (redat.py, main.py, new.py) each is
\* mapped to the last listed name that has it, under keep-first (undat.py) to
\* the first.
C14_CatalogCollisionPolicy ==
    c_pc = "done" =>
        \A lines \in {IF c_list = NoFile THEN <<>> ELSE StrippedLines(c_list)} :
        \A hs \in {[i \in 1..Len(lines) |-> HashesOf(lines[i])]} :
            /\ \A m \in {c_undat, c_redat, c_main} :
                   DOMAIN m = UNION {hs[i] : i \in DOMAIN hs}
            /\ \A h \in DOMAIN c_redat : c_redat[h] = lines[Maximum(Listing(hs, h))]
            /\ \A h \in DOMAIN c_main : c_main[h] = lines[Maximum(Listing(hs, h))]
            /\ \A h \in DOMAIN c_undat : c_undat[h] = lines[Minimum(Listing(hs, h))]

\* "a.b", then "A.B", then an e with a grave accent, whose fingerprint is also
\* that of the e with an acute accent: the loaders have answered, and the two
\* policies differ on the fingerprint of "a.b".
C14_Witness ==
    /\ c_pc = "done"
    /\ c_list = <<97, 46, 98, 10, 65, 46, 66, 10, 232, 10>>
    /\ c_undat[ce_hash(<<97, 46, 98>>)] = <<97, 46, 98>>
    /\ c_redat[ce_hash(<<97, 46, 98>>)] = <<65, 46, 66>>
    /\ c_redat[ce_hash(<<233>>)] = <<232>>

\* C15  Literal-fingerprint naming round trip: a blob whose fingerprint h the
\* catalog does not resolve and that yields no internal name is written by
\* undat.py as "<decimal h>.<sniffed extension>" directly in the output
\* directory; redat.py, for that path when it is not in its reverse index,
\* computes the fingerprint h, and every entry it builds for the path has h.
C15_LiteralFingerprintRoundTrip ==
    variant = "undat" =>
        \A mapped \in {mapped_files(load_filenames_list_redat(listFile))} :
        \A i \in 1..Len(writes) :
            writes[i].hash \notin DOMAIN name_map =>
                LET h == writes[i].hash
                    path == writes[i].path
                    dot == FirstIn(path, {46})
                IN  /\ dot > 1
                    /\ IsDecimal(SubSeq(path, 1, dot - 1))
                    /\ DigitsValue(SubSeq(path, 1, dot - 1), <<0, 0>>) = h
                    /\ Drop(path, dot) = guess_extension_undat(writes[i].data)
                    /\ DirName(path) = <<>>
                    /\ path \notin mapped =>
                           /\ redat_hash(mapped, path)
                                  = [ok |-> TRUE, neg |-> FALSE, val |-> h]
                           /\ \A k \in 1..Len(b_entries) :
                                  b_entries[k].path = path => b_entries[k].hash = h

\* undat.py has written the blob of fingerprint 2^32 - 1 under its literal
\* name, and redat.py has finished with an entry of that path and fingerprint.
C15_Witness ==
    /\ variant = "undat" /\ xpc = "done" /\ bpc = "done"
    /\ \E i \in 1..Len(writes) :
           /\ writes[i].hash = <<65535, 65535>>
           /\ writes[i].hash \notin DOMAIN name_map
           /\ writes[i].path = <<52, 50, 57, 52, 57, 54, 55, 50, 57, 53, 46, 98, 105, 110>>
           /\ \E k \in 1..Len(b_entries) :
                  /\ b_entries[k].path = writes[i].path
                  /\ b_entries[k].hash = <<65535, 65535>>

\* The maximal run of printable ASCII bytes (32..126) of a blob from the fixed
\* header offset 8 on.
NameRun(data) ==
    IF Len(data) < 8 THEN <<>>
    ELSE LET ends == {k \in 8..Len(data) : \A j \in 9..k : data[j] \in 32..126}
         IN  SubSeq(data, 9, Maximum(ends))

\* C16  Embedded-object name recovery: for a blob of the embedded-object family
\* whose fingerprint the catalog did not resolve, undat.py recovers exactly the
\* maximal run of printable ASCII bytes at offset 8: a non-empty run is learned
\* as the name of the fingerprint and names the file, and only an empty run
\* leaves the file under its literal-fingerprint name.
C16_EmbeddedNameRecovery ==
    variant = "undat" =>
        \A i \in 1..Len(writes) :
            LET h == writes[i].hash
                run == NameRun(writes[i].data)
                wasLearned == \E k \in 1..Len(learned) : learned[k].hash = h
            IN  (/\ Take(writes[i].data, 4) = <<69, 79, 66, 74>>
                 /\ (h \notin DOMAIN name_map \/ wasLearned))
                => IF run # <<>>
                   THEN /\ \E k \in 1..Len(learned) :
                               learned[k].hash = h /\ learned[k].name = run
                        /\ writes[i].path = Sanitize(run) \o <<46, 69, 86, 79>>
                   ELSE /\ ~wasLearned
                        /\ writes[i].path = DecStr(h) \o <<46, 101, 111, 98, 106>>

\* C17  In an archive the builder has written for n files, none of the first n
\* table records has fingerprint 0, so the records before the first of
\* fingerprint 0 are all n.
C17_SentinelOnlyZero ==
    bpc = "done" =>
        /\ \A i \in 1..Len(b_files) : RecordAt(outDat, i).hash # <<0, 0>>
        /\ Len(StreamRecords(outDat)) = Len(b_files)
        /\ Len(ParseTable(outDat, 0)) = Len(b_files)

\* C18  Within one extraction, entries of distinct fingerprints are written to
\* distinct paths: when the extractor has finished on a well-formed archive,
\* no two writes share a path, and the files of the output directory are as
\* many as the distinct fingerprints before the sentinel.
C18_DistinctOutputPaths ==
    (xpc = "done" /\ HasSentinel(datFile)) =>
        /\ \A i, k \in 1..Len(writes) :
               writes[i].hash # writes[k].hash => writes[i].path # writes[k].path
        /\ Cardinality(DOMAIN tree)
               = Cardinality({StreamRecords(datFile)[i].hash :
                                 i \in 1..Len(StreamRecords(datFile))})

\* C19  For every relative path found in the reverse index that redat.py makes
\* of its catalog, the fingerprint the builder assigns, the hash of the
\* lower-cased path, is one the catalog maps back to that same path.
C19_ReverseIndexRoundTrip ==
    c_pc = "done" =>
        \A relpath \in mapped_files(c_redat) :
            \A h \in {redat_hash(mapped_files(c_redat), relpath).val} :
                h \in DOMAIN c_redat /\ c_redat[h] = relpath

\* C20  Every fingerprint, offset and size of an entry the builder has built is
\* an integer in 0..2^32-1, and a builder that has given every file its entry
\* has encoded the whole table and finished.
C20_TableFieldsFit ==
    bpc # "idle" =>
        /\ \A k \in 1..Len(b_entries) :
               /\ ~b_entries[k].neg
               /\ IsU32(b_entries[k].hash)
               /\ IsU32(b_entries[k].offset)
               /\ IsU32(b_entries[k].size)
        /\ Len(b_entries) = Len(b_files) => (bpc = "done" /\ HasSentinel(outDat))

=============================================================================
